---- MODULE Spec2Model ----
(***************************************************************************)
(* Session Manager of the Lamela Pediatrics client: the AuthProvider that  *)
(* owns {session, user, loading}, its two asynchronous event paths (the    *)
(* initial getSession() resolution and the onAuthStateChange callback),    *)
(* the profile fetch loadUserProfile, and the four operations it exposes.  *)
(*                                                                         *)
(* The repository holds two AuthProvider files.  src/unnamed/part_004      *)
(* guards its state writes with a `mounted` ref, sends the profile fields  *)
(* as sign-up metadata and reads table user_profiles; the file             *)
(* src/contexts/AuthContext.tsx has no guard, inserts the profile row      *)
(* itself and reads table users.  `variant` says which one is built.       *)
(*                                                                         *)
(* Every action is one JavaScript continuation: the event loop is single   *)
(* threaded, so a continuation runs to its next await without interleaving.*)
(***************************************************************************)
EXTENDS Naturals, Sequences, FiniteSets, TLC

\* ---- bounds -------------------------------------------------------------
\* profile fetches that may be in flight at once
MaxInFlight == 2

\* ---- values -------------------------------------------------------------
Null == [null |-> TRUE]
Undefined == "undefined"

\* account ids; the e-mail address of an account stands for its id
Users == {"u1", "u2"}

Variants == {"mountedRef", "unguarded"}

\* Session | null of @supabase/supabase-js, reduced to its subject
Session(u) == [user |-> [id |-> u]]

\* a row of the profile table, as `select('*')` returns it
Profile(u, r) == [id |-> u, role |-> r]

VARIABLES
    variant,        \* which AuthProvider file the build uses
    session,        \* useState<Session | null>
    user,           \* useState<User | null>
    loading,        \* useState(true)
    mounted,        \* mounted.current (part_004 only)
    subscribed,     \* the onAuthStateChange subscription is registered
    getSession,     \* the promise of supabase.auth.getSession()
    fetches,        \* loadUserProfile calls awaiting their query, in start order
    call,           \* the operation a screen has called, and its progress
    auth_users,     \* the provider's accounts (auth.users), with their metadata
    user_profiles,  \* the profile table the build reads
    tables,         \* the row store: babies, parent_babies, appointments, messages
    screen,         \* the screen that loaded last, with the rows its queries returned
    form,           \* the (auth) screen in front: register or forgot-password
    inbox           \* MessagesScreen: its messages, its subscription, its loads in flight

vars == <<variant, session, user, loading, mounted, subscribed, getSession,
          fetches, call, auth_users, user_profiles, tables, screen, form, inbox>>

\* the AuthProvider and the provider behind it
authVars == <<variant, session, user, loading, mounted, subscribed, getSession,
              fetches, call, auth_users, user_profiles>>

AuthState == <<session, user, loading>>

\* sessions the provider can hand out: one per existing account
Sessions == {Session(u) : u \in {x \in Users : auth_users[x] # Null}}

\* ---- the row store -----------------------------------------------------
Roles == {"admin", "doctor", "staff", "parent"}

\* rows of @/types/database, reduced to their keys and to the columns the
\* screens filter on; appointment_date is "today" or "earlier" (before the
\* current week), the two sides of every date window the screens use
Baby(id, doctor) == [id |-> id, assigned_doctor_id |-> doctor]
ParentBaby(parent, baby) == [parent_id |-> parent, baby_id |-> baby]
Appointment(id, doctor, parent, date) ==
    [id |-> id, doctor_id |-> doctor, parent_id |-> parent, appointment_date |-> date]
Message(id, recipient, read) == [id |-> id, recipient_id |-> recipient, is_read |-> read]

NoRows == [babies |-> {}, parent_babies |-> {}, appointments |-> {}, messages |-> {}]
NoStats == [totalBabies |-> 0, todayAppointments |-> 0, unreadMessages |-> 0]
NoScreen == [name |-> "none", rows |-> NoRows, stats |-> NoStats]

\* ---- the (auth) screens ---------------------------------------------------
\* a screen of the (auth) group as mounted: its loading and emailSent flags,
\* the last Alert.alert it raised and the route it replaced itself with
Form(name) ==
    [name |-> name, loading |-> FALSE, emailSent |-> FALSE, alert |-> "none", route |-> "none"]
NoForm == Form("none")

\* ---- MessagesScreen ---------------------------------------------------------
\* the screen as mounted by a render whose user?.id is userId: the effect's
\* subscription filter and the loadMessages it closed over both hold that id;
\* loads are the recipient ids of the loadMessages calls awaiting their query
Inbox(userId) == [mounted |-> TRUE, userId |-> userId, messages |-> {}, loads |-> <<userId>>]
NoInbox == [mounted |-> FALSE, userId |-> Undefined, messages |-> {}, loads |-> <<>>]

\* ---- the operation record ------------------------------------------------
\* {} is [error |-> Undefined]: reading .error of the result gives undefined
NoArgs == [email |-> "", password |-> "", first_name |-> "", last_name |-> "", phone |-> "",
           role |-> Undefined]
\* raw_user_meta_data of an account: what the sign-up request carried in
\* options.data, every field undefined when it carried none
Metadata(first, last, phone, role) ==
    [first_name |-> first, last_name |-> last, phone |-> phone, role |-> role]
NoMetadata == Metadata(Undefined, Undefined, Undefined, Undefined)

Idle == [op |-> "none", stage |-> "idle", args |-> NoArgs, result |-> Null]

TypeOK ==
    /\ variant \in Variants
    /\ session \in {Null} \cup {Session(u) : u \in Users}
    /\ user \in {Null} \cup {Profile(u, r) : u \in Users, r \in Roles \cup {Undefined}}
    /\ loading \in BOOLEAN
    /\ mounted \in BOOLEAN
    /\ subscribed \in BOOLEAN
    /\ getSession \in {"pending", "resolved", "rejected"}
    /\ Len(fetches) <= MaxInFlight
    /\ \A i \in 1..Len(fetches) :
          /\ fetches[i].userId \in Users
          /\ fetches[i].by \in {"getSession", "onAuthStateChange"}
          /\ fetches[i].stale \in BOOLEAN

Init ==
    /\ variant \in Variants
    /\ session = Null
    /\ user = Null
    /\ loading = TRUE
    /\ mounted = TRUE
    /\ subscribed = TRUE
    /\ getSession = "pending"
    /\ fetches = <<>>
    /\ call = Idle
    /\ auth_users = [u \in Users |-> IF u = "u1" THEN Metadata("Ana", "Lee", "555", "parent") ELSE Null]
    /\ user_profiles = [u \in Users |-> IF u = "u1" THEN Profile("u1", "parent") ELSE Null]
    /\ tables = NoRows
    /\ screen = NoScreen
    /\ form = NoForm
    /\ inbox = NoInbox

\* ---- loadUserProfile: the part that runs before its await ----------------
\* issues the query .from(...).select('*').eq('id', userId).single()
\* `by` is the continuation that called loadUserProfile and `stale` says that
\* a notification has been delivered since: neither is program state, the
\* code keeps no such record
Fetch(userId, by) == [userId |-> userId, by |-> by, stale |-> FALSE]

\* a later notification makes every fetch already in flight a stale one
MarkStale(fs) == [i \in 1..Len(fs) |-> [fs[i] EXCEPT !.stale = TRUE]]

\* getSession().then as it would be if the no-session branch forgot
\* setLoading(false)
getSession_then_keepsLoading(s) ==
    /\ variant = "mountedRef"
    /\ getSession = "pending"
    /\ getSession' = "resolved"
    /\ session' = IF mounted THEN s ELSE session
    /\ IF s # Null
         THEN /\ Len(fetches) < MaxInFlight
              /\ fetches' = Append(fetches, Fetch(s.user.id, "getSession"))
         ELSE UNCHANGED fetches
    /\ UNCHANGED <<variant, tables, screen, form, inbox, user, loading, mounted, subscribed, call, auth_users, user_profiles>>

\* ---- part_004: the initial session ---------------------------------------
getSession_then(s) ==
    /\ variant = "mountedRef"
    /\ getSession = "pending"
    /\ getSession' = "resolved"
    /\ session' = IF mounted THEN s ELSE session
    /\ IF s # Null
         THEN /\ Len(fetches) < MaxInFlight
              /\ fetches' = Append(fetches, Fetch(s.user.id, "getSession"))
              /\ UNCHANGED loading
         ELSE /\ loading' = IF mounted THEN FALSE ELSE loading
              /\ UNCHANGED fetches
    /\ UNCHANGED <<variant, tables, screen, form, inbox, user, mounted, subscribed, call, auth_users, user_profiles>>

\* ---- AuthContext.tsx: the initial session --------------------------------
getSession_then_unguarded(s) ==
    /\ variant = "unguarded"
    /\ getSession = "pending"
    /\ getSession' = "resolved"
    /\ session' = s
    /\ IF s # Null
         THEN /\ Len(fetches) < MaxInFlight
              /\ fetches' = Append(fetches, Fetch(s.user.id, "getSession"))
              /\ UNCHANGED loading
         ELSE /\ loading' = FALSE
              /\ UNCHANGED fetches
    /\ UNCHANGED <<variant, tables, screen, form, inbox, user, mounted, subscribed, call, auth_users, user_profiles>>

\* getSession() rejects: .then() has one argument and no .catch() follows, so
\* no continuation of the provider runs
getSession_rejected ==
    /\ getSession = "pending"
    /\ getSession' = "rejected"
    /\ UNCHANGED <<variant, tables, screen, form, inbox, session, user, loading, mounted, subscribed, fetches,
                   call, auth_users, user_profiles>>

\* the callback as it would be if the no-session branch forgot setUser(null)
onAuthStateChange_keepsUser(s) ==
    /\ variant = "mountedRef"
    /\ subscribed
    /\ session' = IF mounted THEN s ELSE session
    /\ IF s # Null
         THEN /\ Len(fetches) < MaxInFlight
              /\ fetches' = Append(MarkStale(fetches), Fetch(s.user.id, "onAuthStateChange"))
              /\ UNCHANGED <<user, loading>>
         ELSE /\ fetches' = MarkStale(fetches)
              /\ UNCHANGED user
              /\ loading' = IF mounted THEN FALSE ELSE loading
    /\ UNCHANGED <<variant, tables, screen, form, inbox, mounted, subscribed, getSession, call, auth_users, user_profiles>>

\* ---- part_004: the onAuthStateChange callback ----------------------------
onAuthStateChange(s) ==
    /\ variant = "mountedRef"
    /\ subscribed
    /\ session' = IF mounted THEN s ELSE session
    /\ IF s # Null
         THEN /\ Len(fetches) < MaxInFlight
              /\ fetches' = Append(MarkStale(fetches), Fetch(s.user.id, "onAuthStateChange"))
              /\ UNCHANGED <<user, loading>>
         ELSE /\ fetches' = MarkStale(fetches)
              /\ user' = IF mounted THEN Null ELSE user
              /\ loading' = IF mounted THEN FALSE ELSE loading
    /\ UNCHANGED <<variant, tables, screen, form, inbox, mounted, subscribed, getSession, call, auth_users, user_profiles>>

\* the callback as it would be if it showed the loading screen again while
\* the profile of a new session is fetched
onAuthStateChange_unguarded_setsLoading(s) ==
    /\ variant = "unguarded"
    /\ subscribed
    /\ session' = s
    /\ IF s # Null
         THEN /\ Len(fetches) < MaxInFlight
              /\ fetches' = Append(MarkStale(fetches), Fetch(s.user.id, "onAuthStateChange"))
              /\ loading' = TRUE
              /\ UNCHANGED user
         ELSE /\ fetches' = MarkStale(fetches)
              /\ user' = Null
              /\ loading' = FALSE
    /\ UNCHANGED <<variant, tables, screen, form, inbox, mounted, subscribed, getSession, call, auth_users, user_profiles>>

\* ---- AuthContext.tsx: the onAuthStateChange callback ---------------------
onAuthStateChange_unguarded(s) ==
    /\ variant = "unguarded"
    /\ subscribed
    /\ session' = s
    /\ IF s # Null
         THEN /\ Len(fetches) < MaxInFlight
              /\ fetches' = Append(MarkStale(fetches), Fetch(s.user.id, "onAuthStateChange"))
              /\ UNCHANGED <<user, loading>>
         ELSE /\ fetches' = MarkStale(fetches)
              /\ user' = Null
              /\ loading' = FALSE
    /\ UNCHANGED <<variant, tables, screen, form, inbox, mounted, subscribed, getSession, call, auth_users, user_profiles>>

\* ---- the profile query ---------------------------------------------------
\* what .single() answers: the row, or an error when the request fails or
\* the id matches no row (the id is the primary key: never several rows)
single(userId, networkError) ==
    IF networkError THEN [data |-> Null, error |-> [message |-> "Network request failed"]]
    ELSE IF user_profiles[userId] = Null THEN [data |-> Null, error |-> [message |-> "PGRST116"]]
    ELSE [data |-> user_profiles[userId], error |-> Null]

Remove(seq, i) == [j \in 1..(Len(seq) - 1) |-> IF j < i THEN seq[j] ELSE seq[j + 1]]

\* loadUserProfile as it would be if it kept the row to itself
loadUserProfile_skipsSetUser(i, networkError) ==
    /\ variant = "mountedRef"
    /\ i \in 1..Len(fetches)
    /\ loading' = IF mounted THEN FALSE ELSE loading
    /\ fetches' = Remove(fetches, i)
    /\ UNCHANGED <<variant, tables, screen, form, inbox, session, user, mounted, subscribed, getSession, call,
                   auth_users, user_profiles>>

\* ---- part_004: loadUserProfile after its await ---------------------------
loadUserProfile(i, networkError) ==
    /\ variant = "mountedRef"
    /\ i \in 1..Len(fetches)
    /\ LET r == single(fetches[i].userId, networkError)
       IN  /\ user' = IF r.error = Null /\ mounted THEN r.data ELSE user
           /\ loading' = IF mounted THEN FALSE ELSE loading
    /\ fetches' = Remove(fetches, i)
    /\ UNCHANGED <<variant, tables, screen, form, inbox, session, mounted, subscribed, getSession, call,
                   auth_users, user_profiles>>

\* ---- AuthContext.tsx: loadUserProfile after its await --------------------
loadUserProfile_unguarded(i, networkError) ==
    /\ variant = "unguarded"
    /\ i \in 1..Len(fetches)
    /\ LET r == single(fetches[i].userId, networkError)
       IN  /\ user' = IF r.error = Null THEN r.data ELSE user
           /\ loading' = FALSE
    /\ fetches' = Remove(fetches, i)
    /\ UNCHANGED <<variant, tables, screen, form, inbox, session, mounted, subscribed, getSession, call,
                   auth_users, user_profiles>>

\* ---- the effect's cleanup ------------------------------------------------
cleanup ==
    /\ variant = "mountedRef"
    /\ subscribed
    /\ mounted' = FALSE
    /\ subscribed' = FALSE
    /\ UNCHANGED <<variant, tables, screen, form, inbox, session, user, loading, getSession, fetches, call,
                   auth_users, user_profiles>>

cleanup_unguarded ==
    /\ variant = "unguarded"
    /\ subscribed
    /\ subscribed' = FALSE
    /\ UNCHANGED <<variant, tables, screen, form, inbox, session, user, loading, mounted, getSession, fetches,
                   call, auth_users, user_profiles>>

\* ---- the identity provider's answers -------------------------------------
\* an answer is a thrown error (the promise rejects) or a resolved value whose
\* `error` is null or carries a message
Threw == [threw |-> TRUE, user |-> Null, error |-> Null]
Resolved(u, e) == [threw |-> FALSE, user |-> u, error |-> e]
AuthError(m) == [message |-> m]

signInWithPassword(email, password) ==
    {Threw} \cup
    (IF auth_users[email] # Null /\ password = "right"
       THEN {Resolved([id |-> email], Null)}
       ELSE {Resolved(Null, AuthError("Invalid login credentials"))})

auth_signUp(email) ==
    {Threw, Resolved(Null, AuthError("Email rate limit exceeded"))} \cup
    (IF auth_users[email] # Null
       THEN {Resolved(Null, AuthError("User already registered"))}
       ELSE {Resolved([id |-> email], Null)})

auth_resetPasswordForEmail(email) ==
    {Threw, Resolved(Null, AuthError("Email rate limit exceeded")), Resolved(Null, Null)}

auth_signOut ==
    {Threw, Resolved(Null, AuthError("Network request failed")), Resolved(Null, Null)}

\* ---- a screen calls an operation -----------------------------------------
\* the screens live under the AuthProvider: they call while it is mounted, and
\* one caller waits for its result before it calls again
CanCall == subscribed /\ call.stage \in {"idle", "returned", "rejected"}

Awaiting(op, args) == [op |-> op, stage |-> "awaiting", args |-> args, result |-> Null]

\* the operation has returned `result` to its caller
Returned(result) == [call EXCEPT !.stage = "returned", !.args = NoArgs, !.result = result]

\* {error: message} and {}
Failure(message) == [error |-> message]
Success == [error |-> Undefined]

callOperation(op, args) ==
    /\ CanCall
    /\ op = "resetPasswordForEmail" => variant = "mountedRef"
    /\ call' = Awaiting(op, args)
    /\ UNCHANGED <<variant, tables, screen, form, inbox, session, user, loading, mounted, subscribed, getSession,
                   fetches, auth_users, user_profiles>>

\* signIn as it would be if every provider error were reported by the catch
\* branch's text
signIn_genericMessage(resp) ==
    /\ call.op = "signIn" /\ call.stage = "awaiting"
    /\ resp \in signInWithPassword(call.args.email, call.args.password)
    /\ call' = IF resp.threw \/ resp.error # Null
                 THEN Returned(Failure("An unexpected error occurred"))
                 ELSE Returned(Success)
    /\ UNCHANGED <<variant, tables, screen, form, inbox, session, user, loading, mounted, subscribed, getSession,
                   fetches, auth_users, user_profiles>>

\* ---- signIn ---------------------------------------------------------------
signIn(resp) ==
    /\ call.op = "signIn" /\ call.stage = "awaiting"
    /\ resp \in signInWithPassword(call.args.email, call.args.password)
    /\ call' = IF resp.threw THEN Returned(Failure("An unexpected error occurred"))
               ELSE IF resp.error # Null THEN Returned(Failure(resp.error.message))
               ELSE Returned(Success)
    /\ UNCHANGED <<variant, tables, screen, form, inbox, session, user, loading, mounted, subscribed, getSession,
                   fetches, auth_users, user_profiles>>

\* ---- part_004: signUp ------------------------------------------------------
\* options.data of the sign-up request
SignUpMetadata(userData) ==
    Metadata(userData.first_name, userData.last_name, userData.phone,
             IF userData.role = Undefined THEN "parent" ELSE userData.role)

signUp(resp) ==
    /\ variant = "mountedRef"
    /\ call.op = "signUp" /\ call.stage = "awaiting"
    /\ resp \in auth_signUp(call.args.email)
    /\ IF resp.threw
         THEN /\ call' = Returned(Failure("An unexpected error occurred"))
              /\ UNCHANGED auth_users
         ELSE IF resp.error # Null
         THEN /\ call' = Returned(Failure(resp.error.message))
              /\ UNCHANGED auth_users
         ELSE /\ auth_users' = [auth_users EXCEPT ![call.args.email] = SignUpMetadata(call.args)]
              /\ call' = IF resp.user # Null THEN [call EXCEPT !.stage = "delay"]
                         ELSE Returned(Success)
    /\ UNCHANGED <<variant, tables, screen, form, inbox, session, user, loading, mounted, subscribed, getSession,
                   fetches, user_profiles>>

\* the setTimeout(resolve, 1000) fires
signUp_delay ==
    /\ variant = "mountedRef"
    /\ call.op = "signUp" /\ call.stage = "delay"
    /\ call' = Returned(Success)
    /\ UNCHANGED <<variant, tables, screen, form, inbox, session, user, loading, mounted, subscribed, getSession,
                   fetches, auth_users, user_profiles>>

\* ---- the migration's trigger on auth.users -------------------------------
\* handle_new_user copies the metadata into user_profiles, role defaulting to
\* parent; AuthContext.tsx reads table users, which the trigger leaves alone
handle_new_user(u) ==
    /\ variant = "mountedRef"
    /\ auth_users[u] # Null
    /\ user_profiles[u] = Null
    /\ user_profiles' = [user_profiles EXCEPT ![u] =
           Profile(u, IF auth_users[u].role = Undefined THEN "parent" ELSE auth_users[u].role)]
    /\ UNCHANGED <<variant, tables, screen, form, inbox, session, user, loading, mounted, subscribed, getSession,
                   fetches, call, auth_users>>

\* AuthContext.tsx's signUp as it would be if the insert did not wait for the
\* error check
signUp_unguarded_errorIgnored(resp) ==
    /\ variant = "unguarded"
    /\ call.op = "signUp" /\ call.stage = "awaiting"
    /\ resp \in auth_signUp(call.args.email)
    /\ IF resp.threw
         THEN /\ call' = Returned(Failure("An unexpected error occurred"))
              /\ UNCHANGED auth_users
         ELSE /\ auth_users' = IF resp.error = Null
                                 THEN [auth_users EXCEPT ![call.args.email] = NoMetadata]
                                 ELSE auth_users
              /\ call' = [call EXCEPT !.stage = "insert"]
    /\ UNCHANGED <<variant, tables, screen, form, inbox, session, user, loading, mounted, subscribed, getSession,
                   fetches, user_profiles>>

\* ---- AuthContext.tsx: signUp ---------------------------------------------
signUp_unguarded(resp) ==
    /\ variant = "unguarded"
    /\ call.op = "signUp" /\ call.stage = "awaiting"
    /\ resp \in auth_signUp(call.args.email)
    /\ IF resp.threw
         THEN /\ call' = Returned(Failure("An unexpected error occurred"))
              /\ UNCHANGED auth_users
         ELSE IF resp.error # Null
         THEN /\ call' = Returned(Failure(resp.error.message))
              /\ UNCHANGED auth_users
         ELSE /\ auth_users' = [auth_users EXCEPT ![call.args.email] = NoMetadata]
              /\ call' = IF resp.user # Null THEN [call EXCEPT !.stage = "insert"]
                         ELSE Returned(Success)
    /\ UNCHANGED <<variant, tables, screen, form, inbox, session, user, loading, mounted, subscribed, getSession,
                   fetches, user_profiles>>

\* the answer to .from('users').insert({id, email, ...userData})
signUp_insert(outcome) ==
    /\ variant = "unguarded"
    /\ call.op = "signUp" /\ call.stage = "insert"
    /\ IF outcome = "threw"
         THEN /\ call' = Returned(Failure("An unexpected error occurred"))
              /\ UNCHANGED user_profiles
         ELSE IF outcome = "error" \/ user_profiles[call.args.email] # Null
         THEN /\ call' = Returned(Failure("new row violates row-level security policy"))
              /\ UNCHANGED user_profiles
         ELSE /\ user_profiles' = [user_profiles EXCEPT ![call.args.email] =
                     Profile(call.args.email, call.args.role)]
              /\ call' = Returned(Success)
    /\ UNCHANGED <<variant, tables, screen, form, inbox, session, user, loading, mounted, subscribed, getSession,
                   fetches, auth_users>>

\* signOut as it would be if it cleared the published state itself
signOut_clearsState(resp) ==
    /\ call.op = "signOut" /\ call.stage = "awaiting"
    /\ resp \in auth_signOut
    /\ call' = IF resp.threw THEN [call EXCEPT !.stage = "rejected", !.args = NoArgs]
               ELSE Returned(Undefined)
    /\ session' = IF resp.threw THEN session ELSE Null
    /\ user' = IF resp.threw THEN user ELSE Null
    /\ UNCHANGED <<variant, tables, screen, form, inbox, loading, mounted, subscribed, getSession,
                   fetches, auth_users, user_profiles>>

\* ---- signOut ---------------------------------------------------------------
\* `await supabase.auth.signOut()` with no try: a rejection rejects signOut's
\* own promise, an {error} value is dropped
signOut(resp) ==
    /\ call.op = "signOut" /\ call.stage = "awaiting"
    /\ resp \in auth_signOut
    /\ call' = IF resp.threw THEN [call EXCEPT !.stage = "rejected", !.args = NoArgs]
               ELSE Returned(Undefined)
    /\ UNCHANGED <<variant, tables, screen, form, inbox, session, user, loading, mounted, subscribed, getSession,
                   fetches, auth_users, user_profiles>>

\* ---- part_004: resetPasswordForEmail ---------------------------------------
resetPasswordForEmail(resp) ==
    /\ variant = "mountedRef"
    /\ call.op = "resetPasswordForEmail" /\ call.stage = "awaiting"
    /\ resp \in auth_resetPasswordForEmail(call.args.email)
    /\ call' = IF resp.threw THEN Returned(Failure("An unexpected error occurred"))
               ELSE IF resp.error # Null THEN Returned(Failure(resp.error.message))
               ELSE Returned(Success)
    /\ UNCHANGED <<variant, tables, screen, form, inbox, session, user, loading, mounted, subscribed, getSession,
                   fetches, auth_users, user_profiles>>

\* every answer a provider call can give, for the quantifiers of Next
Answers ==
    {Threw} \cup {Resolved(u, e) : u \in {Null} \cup {[id |-> x] : x \in Users},
                                   e \in {Null} \cup {AuthError(m) : m \in
                                       {"Invalid login credentials", "User already registered",
                                        "Email rate limit exceeded", "Network request failed"}}}

\* what the screens pass
SignInArgs == {[NoArgs EXCEPT !.email = e, !.password = p] : e \in Users, p \in {"right", "wrong"}}
SignUpArgs ==
    {[email |-> e, password |-> "right", first_name |-> "Ana", last_name |-> "Lee",
      phone |-> "555", role |-> r] : e \in Users, r \in {Undefined, "doctor"}}
EmailArgs == {[NoArgs EXCEPT !.email = e] : e \in Users}

OperationStep ==
    \/ \E a \in SignInArgs : callOperation("signIn", a)
    \/ \E a \in SignUpArgs : callOperation("signUp", a)
    \/ \E a \in EmailArgs : callOperation("resetPasswordForEmail", a)
    \/ callOperation("signOut", NoArgs)
    \/ \E r \in Answers : signIn(r)
    \/ \E r \in Answers : signUp(r)
    \/ signUp_delay
    \/ \E r \in Answers : signUp_unguarded(r)
    \/ \E o \in {"ok", "error", "threw"} : signUp_insert(o)
    \/ \E r \in Answers : signOut(r)
    \/ \E r \in Answers : resetPasswordForEmail(r)

SessionManagerStep ==
    \/ \E s \in Sessions \cup {Null} : getSession_then(s)
    \/ \E s \in Sessions \cup {Null} : getSession_then_unguarded(s)
    \/ getSession_rejected
    \/ \E s \in Sessions \cup {Null} : onAuthStateChange(s)
    \/ \E s \in Sessions \cup {Null} : onAuthStateChange_unguarded(s)
    \/ \E i \in 1..MaxInFlight, e \in BOOLEAN : loadUserProfile(i, e)
    \/ \E i \in 1..MaxInFlight, e \in BOOLEAN : loadUserProfile_unguarded(i, e)

Next ==
    \/ SessionManagerStep
    \/ cleanup
    \/ cleanup_unguarded
    \/ OperationStep
    \/ \E u \in Users : handle_new_user(u)

Spec == Init /\ [][Next]_vars

\* ==== the screens' queries =================================================
\* user?.id and user?.role of the screen's `user`
UserId(u) == IF u = Null THEN Undefined ELSE u.id
Role(u) == IF u = Null THEN Undefined ELSE u.role

\* .eq(column, value): no row has the value undefined
Eq(rows, column, value) == {r \in rows : r[column] = value}

\* the date windows: .gte('appointment_date', today).lt(...) of the dashboard
\* and .gte('appointment_date', startOfWeek) of the reports
InWindow(rows) == {r \in rows : r.appointment_date = "today"}

\* the embedded `babies (*)` of a parent_babies row, after .filter(Boolean)
EmbeddedBabies(links) == {b \in tables.babies : \E pb \in links : pb.baby_id = b.id}

Loaded(name, rows, stats) == [name |-> name, rows |-> rows, stats |-> stats]

\* RootLayoutNav as it would be if it asked for a loaded profile
RootLayoutNav_requiresUser ==
    IF loading THEN "LoadingScreen"
    ELSE IF session # Null /\ user # Null THEN "(tabs)"
    ELSE "(auth)"

\* what RootLayoutNav renders: the loading screen, or the stack with the
\* (tabs) or the (auth) group
RootLayoutNav ==
    IF loading THEN "LoadingScreen"
    ELSE IF session # Null THEN "(tabs)"
    ELSE "(auth)"

\* what the Index route renders: the loading screen or a redirect
Index ==
    IF loading THEN "LoadingScreen"
    ELSE IF session # Null THEN "/(tabs)"
    ELSE "/(auth)/login"

\* RootLayoutNav renders the (tabs) screens when loading is false and a
\* session is present
TabsShown == ~loading /\ session # Null

\* ---- DashboardScreen --------------------------------------------------------
loadParentStats(u) ==
    [NoRows EXCEPT
       !.parent_babies = Eq(tables.parent_babies, "parent_id", UserId(u)),
       !.appointments = InWindow(Eq(tables.appointments, "parent_id", UserId(u))),
       !.messages = Eq(Eq(tables.messages, "recipient_id", UserId(u)), "is_read", FALSE)]

loadStaffStats(u) ==
    [NoRows EXCEPT
       !.babies = tables.babies,
       !.appointments = InWindow(tables.appointments),
       !.messages = IF Role(u) = "doctor"
                      THEN Eq(Eq(tables.messages, "recipient_id", UserId(u)), "is_read", FALSE)
                      ELSE {}]

\* setStats({totalBabies: babies?.length || 0, ...})
DashboardStats(u, rows) ==
    [totalBabies |-> IF Role(u) = "parent" THEN Cardinality(rows.parent_babies)
                     ELSE Cardinality(rows.babies),
     todayAppointments |-> Cardinality(rows.appointments),
     unreadMessages |-> Cardinality(rows.messages)]

loadDashboardData(failed) ==
    /\ TabsShown
    /\ LET rows == IF failed THEN NoRows
                   ELSE IF Role(user) = "parent" THEN loadParentStats(user)
                   ELSE loadStaffStats(user)
       IN  screen' = Loaded("dashboard", rows, DashboardStats(user, rows))
    /\ UNCHANGED <<authVars, tables, form, inbox>>

\* ---- PatientsScreen ---------------------------------------------------------
PatientsQuery(u) ==
    IF Role(u) = "doctor" THEN Eq(tables.babies, "assigned_doctor_id", u.id)
    ELSE tables.babies

loadPatients(failed) ==
    /\ TabsShown
    /\ screen' = Loaded("patients",
                        [NoRows EXCEPT !.babies = IF failed THEN {} ELSE PatientsQuery(user)],
                        NoStats)
    /\ UNCHANGED <<authVars, tables, form, inbox>>

\* ---- AppointmentsScreen -----------------------------------------------------
\* the query as it would be if the doctor filter were the plain else branch
AppointmentsQuery_elseIsDoctor(u) ==
    IF Role(u) = "parent" THEN Eq(tables.appointments, "parent_id", u.id)
    ELSE Eq(tables.appointments, "doctor_id", UserId(u))

AppointmentsQuery(u) ==
    IF Role(u) = "parent" THEN Eq(tables.appointments, "parent_id", u.id)
    ELSE IF Role(u) = "doctor" THEN Eq(tables.appointments, "doctor_id", u.id)
    ELSE tables.appointments

loadAppointments(failed) ==
    /\ TabsShown
    /\ screen' = Loaded("appointments",
                        [NoRows EXCEPT !.appointments =
                             IF failed THEN {} ELSE AppointmentsQuery(user)],
                        NoStats)
    /\ UNCHANGED <<authVars, tables, form, inbox>>

\* ---- BabiesScreen -----------------------------------------------------------
BabiesQuery(u) ==
    IF Role(u) = "parent"
      THEN EmbeddedBabies(Eq(tables.parent_babies, "parent_id", u.id))
      ELSE tables.babies

loadBabies(failed) ==
    /\ TabsShown
    /\ screen' = Loaded("babies",
                        [NoRows EXCEPT !.babies = IF failed THEN {} ELSE BabiesQuery(user)],
                        NoStats)
    /\ UNCHANGED <<authVars, tables, form, inbox>>

\* ---- GrowthScreen -----------------------------------------------------------
\* only a parent's screen queries; for every other role the list stays empty
GrowthQuery(u) ==
    IF Role(u) = "parent"
      THEN EmbeddedBabies(Eq(tables.parent_babies, "parent_id", u.id))
      ELSE {}

loadGrowthData(failed) ==
    /\ TabsShown
    /\ screen' = Loaded("growth",
                        [NoRows EXCEPT !.babies = IF failed THEN {} ELSE GrowthQuery(user)],
                        NoStats)
    /\ UNCHANGED <<authVars, tables, form, inbox>>

\* ---- MessagesScreen ---------------------------------------------------------
MessagesQuery(u) == Eq(tables.messages, "recipient_id", UserId(u))

loadMessages(failed) ==
    /\ TabsShown
    /\ screen' = Loaded("messages",
                        [NoRows EXCEPT !.messages = IF failed THEN {} ELSE MessagesQuery(user)],
                        NoStats)
    /\ UNCHANGED <<authVars, tables, form, inbox>>

\* ---- ReportsScreen ----------------------------------------------------------
loadReportData(failed) ==
    /\ TabsShown
    /\ screen' = Loaded("reports",
                        IF failed THEN NoRows
                        ELSE [NoRows EXCEPT !.babies = tables.babies,
                                            !.appointments = InWindow(tables.appointments)],
                        NoStats)
    /\ UNCHANGED <<authVars, tables, form, inbox>>

\* ---- TabLayout ---------------------------------------------------------------
\* the baby list in the tabs of a role: `patients` for admin, doctor and
\* staff, `babies` for a parent and for the default case
BabyListQuery(u) ==
    IF Role(u) \in {"admin", "doctor", "staff"} THEN PatientsQuery(u) ELSE BabiesQuery(u)

\* ---- the screens over a stored row set --------------------------------------
Unassigned == "null"

\* two babies, their links to parents, two appointments, two messages
StoredTables ==
    {[babies |-> {Baby("b1", d1), Baby("b2", d2)},
      parent_babies |-> links,
      appointments |-> {Appointment("a1", d, p, date), Appointment("a2", "u2", "u2", "today")},
      messages |-> {Message("m1", r, read), Message("m2", "u2", FALSE)}] :
        d1 \in Users, d2 \in {"u2", Unassigned},
        links \in SUBSET {ParentBaby("u1", "b1"), ParentBaby("u2", "b2")},
        d \in Users, p \in Users, date \in {"today", "earlier"},
        r \in Users, read \in BOOLEAN}

\* a settled AuthProvider showing the tabs: a session, with its profile or,
\* after a failed profile fetch, without one
InitQuery ==
    /\ variant = "mountedRef"
    /\ \E u \in Users :
          /\ session = Session(u)
          /\ user \in {Null} \cup {Profile(u, r) : r \in Roles}
          /\ auth_users = [x \in Users |-> Metadata("Ana", "Lee", "555", "parent")]
          /\ user_profiles = [x \in Users |->
                                IF x = u /\ user # Null THEN user ELSE Profile(x, "parent")]
    /\ loading = FALSE
    /\ mounted = TRUE
    /\ subscribed = TRUE
    /\ getSession = "resolved"
    /\ fetches = <<>>
    /\ call = Idle
    /\ tables \in StoredTables
    /\ screen = NoScreen
    /\ form = NoForm
    /\ inbox = NoInbox

NextQuery ==
    \/ \E failed \in BOOLEAN : loadDashboardData(failed)
    \/ \E failed \in BOOLEAN : loadPatients(failed)
    \/ \E failed \in BOOLEAN : loadAppointments(failed)
    \/ \E failed \in BOOLEAN : loadBabies(failed)
    \/ \E failed \in BOOLEAN : loadGrowthData(failed)
    \/ \E failed \in BOOLEAN : loadMessages(failed)
    \/ \E failed \in BOOLEAN : loadReportData(failed)

SpecQuery == InitQuery /\ [][NextQuery]_vars

\* ==== the (auth) screens ====================================================
\* the screen is in front and its button is enabled (disabled={loading})
FormIdle(name) == form.name = name /\ ~form.loading /\ form.route = "none"

\* the screen mounts with its useState initial values
open(name) ==
    /\ ~form.loading
    /\ form' = Form(name)
    /\ UNCHANGED <<authVars, tables, screen, inbox>>

\* ---- ForgotPasswordScreen ---------------------------------------------------
\* once emailSent is set the screen renders "Check Your Email", which has no
\* reset button
handleResetPassword(email) ==
    /\ FormIdle("forgot-password") /\ ~form.emailSent
    /\ IF email = ""
         THEN /\ form' = [form EXCEPT !.alert = "Please enter your email address"]
              /\ UNCHANGED call
         ELSE /\ CanCall /\ variant = "mountedRef"
              /\ form' = [form EXCEPT !.loading = TRUE]
              /\ call' = Awaiting("resetPasswordForEmail", [NoArgs EXCEPT !.email = email])
    /\ UNCHANGED <<variant, session, user, loading, mounted, subscribed, getSession, fetches,
                   auth_users, user_profiles, tables, screen, inbox>>

\* the part of handleResetPassword after `await resetPasswordForEmail(email)`
\* as it would be if it set emailSent before looking at the error
handleResetPassword_then_alwaysSent ==
    /\ form.name = "forgot-password" /\ form.loading
    /\ call.op = "resetPasswordForEmail" /\ call.stage = "returned"
    /\ form' = IF call.result.error # Undefined
                 THEN [form EXCEPT !.alert = call.result.error, !.emailSent = TRUE,
                                   !.loading = FALSE]
                 ELSE [form EXCEPT !.emailSent = TRUE, !.loading = FALSE]
    /\ UNCHANGED <<authVars, tables, screen, inbox>>

\* the part of handleResetPassword after `await resetPasswordForEmail(email)`
handleResetPassword_then ==
    /\ form.name = "forgot-password" /\ form.loading
    /\ call.op = "resetPasswordForEmail" /\ call.stage = "returned"
    /\ form' = IF call.result.error # Undefined
                 THEN [form EXCEPT !.alert = call.result.error, !.loading = FALSE]
                 ELSE [form EXCEPT !.emailSent = TRUE, !.loading = FALSE]
    /\ UNCHANGED <<authVars, tables, screen, inbox>>

\* ---- RegisterScreen ---------------------------------------------------------
\* a password is the sequence of its characters
Password(n) == [i \in 1..n |-> "x"]

\* the first check of handleRegister that fails, "none" when all pass
RegisterCheck(formData) ==
    IF formData.email = "" \/ formData.password = <<>> \/ formData.firstName = ""
          \/ formData.lastName = ""
      THEN "Please fill in all required fields"
    ELSE IF formData.password # formData.confirmPassword THEN "Passwords do not match"
    ELSE IF Len(formData.password) < 6 THEN "Password must be at least 6 characters"
    ELSE "none"

handleRegister(formData) ==
    /\ FormIdle("register")
    /\ IF RegisterCheck(formData) # "none"
         THEN /\ form' = [form EXCEPT !.alert = RegisterCheck(formData)]
              /\ UNCHANGED call
         ELSE /\ CanCall
              /\ form' = [form EXCEPT !.loading = TRUE]
              /\ call' = Awaiting("signUp",
                                  [email |-> formData.email, password |-> formData.password,
                                   first_name |-> formData.firstName,
                                   last_name |-> formData.lastName,
                                   phone |-> formData.phone, role |-> formData.role])
    /\ UNCHANGED <<variant, session, user, loading, mounted, subscribed, getSession, fetches,
                   auth_users, user_profiles, tables, screen, inbox>>

\* error.includes('User already registered') || error.includes('user_already_exists'),
\* over the messages signUp can return
IsDuplicateAccount(error) == error \in {"User already registered", "user_already_exists"}

\* the part of handleRegister after `await signUp(...)` as it would be if
\* every error sent the user to the login screen
handleRegister_then_anyErrorNavigates ==
    /\ form.name = "register" /\ form.loading
    /\ call.op = "signUp" /\ call.stage = "returned"
    /\ form' = IF call.result.error # Undefined
                 THEN [form EXCEPT !.route = "/(auth)/login", !.loading = FALSE]
                 ELSE [form EXCEPT !.alert = "Account created successfully! Please sign in.",
                                   !.route = "/(auth)/login", !.loading = FALSE]
    /\ UNCHANGED <<authVars, tables, screen, inbox>>

\* the part of handleRegister after `await signUp(...)`
handleRegister_then ==
    /\ form.name = "register" /\ form.loading
    /\ call.op = "signUp" /\ call.stage = "returned"
    /\ form' = IF call.result.error # Undefined
                 THEN IF IsDuplicateAccount(call.result.error)
                        THEN [form EXCEPT !.route = "/(auth)/login", !.loading = FALSE]
                        ELSE [form EXCEPT !.alert = call.result.error, !.loading = FALSE]
                 ELSE [form EXCEPT !.alert = "Account created successfully! Please sign in.",
                                   !.route = "/(auth)/login", !.loading = FALSE]
    /\ UNCHANGED <<authVars, tables, screen, inbox>>

\* ---- the (auth) screens over the AuthProvider's operations ----------------
MinPassword == 6

FormData ==
    {[email |-> e, password |-> Password(n), confirmPassword |-> Password(c),
      firstName |-> f, lastName |-> l, phone |-> "", role |-> "parent"] :
        e \in {""} \cup Users, n \in {0, MinPassword - 1, MinPassword},
        c \in {MinPassword - 1, MinPassword}, f \in {"", "Ana"}, l \in {"", "Lee"}}

InitForms ==
    /\ variant \in Variants
    /\ session = Null /\ user = Null /\ loading = FALSE
    /\ mounted = TRUE /\ subscribed = TRUE
    /\ getSession = "resolved"
    /\ fetches = <<>>
    /\ call = Idle
    /\ auth_users = [u \in Users |-> IF u = "u1" THEN Metadata("Ana", "Lee", "555", "parent") ELSE Null]
    /\ user_profiles = [u \in Users |-> IF u = "u1" THEN Profile("u1", "parent") ELSE Null]
    /\ tables = NoRows
    /\ screen = NoScreen
    /\ form = NoForm
    /\ inbox = NoInbox

NextForms ==
    \/ \E name \in {"register", "forgot-password"} : open(name)
    \/ \E email \in {""} \cup Users : handleResetPassword(email)
    \/ \E r \in Answers : resetPasswordForEmail(r)
    \/ handleResetPassword_then
    \/ \E formData \in FormData : handleRegister(formData)
    \/ \E r \in Answers : signUp(r)
    \/ signUp_delay
    \/ \E r \in Answers : signUp_unguarded(r)
    \/ \E o \in {"ok", "error", "threw"} : signUp_insert(o)
    \/ \E u \in Users : handle_new_user(u)
    \/ handleRegister_then

SpecForms == InitForms /\ [][NextForms]_vars

\* ==== MessagesScreen over a changing row store ===============================
MaxLoads == 2

\* .update({is_read: true}).eq('id', messageId), and the same map on the local
\* list
SetRead(rows, messageId) ==
    {IF m.id = messageId THEN [m EXCEPT !.is_read = TRUE] ELSE m : m \in rows}

\* a change of a messages row reaches the channel when the row passes the
\* filter recipient_id=eq.${user?.id} the effect subscribed with; the
\* callback then calls the loadMessages the effect closed over
Notify(box, recipient) ==
    IF box.mounted /\ recipient = box.userId
      THEN [box EXCEPT !.loads = Append(@, box.userId)]
      ELSE box

\* the useEffect of MessagesScreen: loadMessages() and the subscription
MessagesScreen_useEffect ==
    /\ TabsShown /\ ~inbox.mounted
    /\ Len(inbox.loads) < MaxLoads
    /\ inbox' = [Inbox(UserId(user)) EXCEPT !.loads = Append(inbox.loads, UserId(user))]
    /\ UNCHANGED <<authVars, tables, screen, form>>

\* the effect's cleanup: subscription.unsubscribe(); the component's state
\* goes with it, calls already awaiting their query stay in flight
MessagesScreen_cleanup ==
    /\ inbox.mounted
    /\ inbox' = [NoInbox EXCEPT !.loads = inbox.loads]
    /\ UNCHANGED <<authVars, tables, screen, form>>

\* pull to refresh: loadMessages of the current render
onRefresh ==
    /\ TabsShown /\ inbox.mounted
    /\ Len(inbox.loads) < MaxLoads
    /\ inbox' = [inbox EXCEPT !.loads = Append(@, UserId(user))]
    /\ UNCHANGED <<authVars, tables, screen, form>>

\* loadMessages after its await: the rows replace the list unless the query
\* failed; a call that outlived its screen sets nothing
loadMessages_then(i, failed) ==
    /\ i \in 1..Len(inbox.loads)
    /\ inbox' = [inbox EXCEPT
                   !.loads = Remove(@, i),
                   !.messages = IF failed \/ ~inbox.mounted THEN @
                                ELSE Eq(tables.messages, "recipient_id", inbox.loads[i])]
    /\ UNCHANGED <<authVars, tables, screen, form>>

\* another client inserts a message row
postgres_changes(m) ==
    /\ \A x \in tables.messages : x.id # m.id
    /\ Len(inbox.loads) < MaxLoads
    /\ tables' = [tables EXCEPT !.messages = @ \cup {m}]
    /\ inbox' = Notify(inbox, m.recipient_id)
    /\ UNCHANGED <<authVars, screen, form>>

\* markAsRead: `await supabase...update(...)` resolves without an error,
\* resolves with {error} (which the code does not read), or throws
markAsRead(messageId, outcome) ==
    /\ TabsShown /\ inbox.mounted
    /\ \E m \in inbox.messages : m.id = messageId
    /\ Len(inbox.loads) < MaxLoads
    /\ IF outcome = "threw"
         THEN UNCHANGED <<tables, inbox>>
         ELSE IF outcome = "error"
         THEN /\ inbox' = [inbox EXCEPT !.messages = SetRead(@, messageId)]
              /\ UNCHANGED tables
         ELSE /\ tables' = [tables EXCEPT !.messages = SetRead(@, messageId)]
              /\ inbox' = LET changed == {m \in tables.messages : m.id = messageId /\ ~m.is_read}
                              box == [inbox EXCEPT !.messages = SetRead(@, messageId)]
                          IN  IF changed = {} THEN box
                              ELSE Notify(box, (CHOOSE m \in changed : TRUE).recipient_id)
    /\ UNCHANGED <<authVars, screen, form>>

\* the message rows other clients can insert
InboxMessages == {Message("m1", "u1", FALSE), Message("m2", "u2", FALSE)}

\* the tabs are shown for a session whose profile is loaded or, after a failed
\* profile fetch, is not
InitInbox ==
    /\ variant = "mountedRef"
    /\ \E u \in Users :
          /\ session = Session(u)
          /\ user \in {Null, Profile(u, "parent")}
    /\ auth_users = [x \in Users |-> Metadata("Ana", "Lee", "555", "parent")]
    /\ user_profiles = [x \in Users |-> Profile(x, "parent")]
    /\ loading = FALSE
    /\ mounted = TRUE
    /\ subscribed = TRUE
    /\ getSession = "resolved"
    /\ fetches = <<>>
    /\ call = Idle
    /\ \E ms \in SUBSET InboxMessages : tables = [NoRows EXCEPT !.messages = ms]
    /\ screen = NoScreen
    /\ form = NoForm
    /\ inbox = NoInbox

\* the provider refreshes the token of the current session or ends it, and
\* each notification runs the AuthProvider's callback
NextInbox ==
    \/ MessagesScreen_useEffect
    \/ MessagesScreen_cleanup
    \/ onRefresh
    \/ \E i \in 1..MaxLoads, failed \in BOOLEAN : loadMessages_then(i, failed)
    \/ \E m \in InboxMessages : postgres_changes(m)
    \/ \E id \in {"m1", "m2"}, outcome \in {"ok", "error", "threw"} : markAsRead(id, outcome)
    \/ \E s \in {session, Null} : onAuthStateChange(s)
    \/ \E i \in 1..MaxInFlight, e \in BOOLEAN : loadUserProfile(i, e)

SpecInbox == InitInbox /\ [][NextInbox]_vars

\* ==== properties ==========================================================
\* the scope of the AuthProvider has not ended
Mounted == subscribed

\* step i of fetches is completed by this step, in either build
LoadStep(i, e) == loadUserProfile(i, e) \/ loadUserProfile_unguarded(i, e)

\* fetch i is the one the latest event started
Fresh(i) == ~fetches[i].stale

\* C1: in every reachable state, user != null implies session != null.
C1_UserImpliesSession == user # Null => session # Null

\* C2: when the profile fetched for the latest notification is published and
\* the fetch of an earlier notification resolves late, the late result is
\* discarded: user stays what the latest fetch made it.
LatestPublished ==
    /\ session # Null /\ user # Null /\ user.id = session.user.id
    /\ \A j \in 1..Len(fetches) : fetches[j].stale

C2_LastWriteWins ==
    [][\A i \in 1..Len(fetches), e \in BOOLEAN :
          (LatestPublished /\ fetches[i].stale /\ fetches[i].by = "onAuthStateChange"
             /\ LoadStep(i, e)) => user' = user]_vars

\* C3: while the provider is mounted, once the session request and every
\* profile fetch have settled, loading is false.
C3_LoadingClears ==
    (Mounted /\ getSession # "pending" /\ fetches = <<>>) => loading = FALSE

\* C4: while the fetch for the current session is in flight, loading is true.
C4_InFlightImpliesLoading ==
    (Mounted /\ session # Null
       /\ \E i \in 1..Len(fetches) : Fresh(i) /\ fetches[i].userId = session.user.id)
    => loading = TRUE

\* C5: when the fetch for the current session fails, the state after it is
\* session unchanged, user = null, loading = false, whatever user was before.
C5_FailedFetchClearsUser ==
    [][\A i \in 1..Len(fetches), e \in BOOLEAN :
          (Mounted /\ session # Null /\ Fresh(i) /\ fetches[i].userId = session.user.id
             /\ single(fetches[i].userId, e).error # Null /\ LoadStep(i, e))
          => (session' = session /\ user' = Null /\ loading' = FALSE)]_vars

\* C6: once the scope has ended the subscription is unregistered and no step
\* changes session, user or loading.
C6_TeardownFreezesState ==
    [][~Mounted => (~Mounted' /\ AuthState' = AuthState)]_vars

\* C7: the four operations never write session, user or loading: a step of an
\* operation leaves AuthState alone, and a step that changes AuthState is a
\* step of the Session Manager's event path (the initial session resolution,
\* the notification callback, the completion of a profile fetch).
C7_SingleWriter ==
    [][/\ OperationStep => AuthState' = AuthState
       /\ AuthState' # AuthState => SessionManagerStep]_vars

\* signOut has returned and the session and profile are still published
C7_Witness ==
    /\ call.op = "signOut" /\ call.stage = "returned"
    /\ session # Null /\ user # Null

\* C8: signIn returns {error: <the provider's message>} when the provider
\* answers with an error and {} when it answers without one, and in both
\* cases the step leaves AuthState as it was.
C8_SignInResult ==
    [][\A r \in Answers :
          signIn(r) =>
             /\ AuthState' = AuthState
             /\ r.error # Null => call'.result = Failure(r.error.message)
             /\ (~r.threw /\ r.error = Null) => call'.result = Success]_vars

\* signIn has returned the provider's message and nothing is published
C8_Witness ==
    /\ call.op = "signIn" /\ call.stage = "returned"
    /\ call.result = Failure("Invalid login credentials")
    /\ session = Null /\ user = Null

\* C9: signUp with an e-mail that has an account returns {error: <the
\* provider's duplicate-account message>}, starts no profile insert, and
\* changes neither the profile table, the accounts nor AuthState.
DuplicateAnswer == Resolved(Null, AuthError("User already registered"))

C9_DuplicateSignUp ==
    [][(call.op = "signUp" /\ call.stage = "awaiting" /\ auth_users[call.args.email] # Null
          /\ (signUp(DuplicateAnswer) \/ signUp_unguarded(DuplicateAnswer)))
       => /\ call'.stage = "returned"
          /\ call'.result = Failure("User already registered")
          /\ user_profiles' = user_profiles
          /\ auth_users' = auth_users
          /\ AuthState' = AuthState]_vars

\* signUp has returned the duplicate-account message
C9_Witness ==
    /\ call.op = "signUp" /\ call.stage = "returned"
    /\ call.result = Failure("User already registered")

\* C10: no rejection crosses an asynchronous boundary uncaught: neither the
\* initial session request nor an operation ends as a rejected promise that
\* no handler takes.
C10_NoUncaughtRejection == getSession # "rejected" /\ call.stage # "rejected"

\* C11: signOut never surfaces a failure of the provider's sign-out call: its
\* promise does not reject.
C11_SignOutNeverRejects == call.op = "signOut" => call.stage # "rejected"

\* C17: from the initial state, with the provider mounted, the resolution of
\* the session request to null gives session = null, user = null,
\* loading = false and starts no profile fetch.
C17_NoSessionScenario ==
    [][(Mounted /\ session = Null /\ user = Null /\ loading /\ fetches = <<>>
          /\ (getSession_then(Null) \/ getSession_then_unguarded(Null)))
       => (session' = Null /\ user' = Null /\ loading' = FALSE /\ fetches' = <<>>)]_vars

\* the session request has answered null and nothing was fetched
C17_Witness ==
    /\ Mounted /\ getSession = "resolved"
    /\ session = Null /\ user = Null /\ ~loading /\ fetches = <<>>

\* C18: with the provider mounted, a session request that resolves to a
\* session publishes it and starts one fetch keyed by its subject id; when
\* the fetch for the published session finds the row, the state is that
\* session, user = the row with the session's subject id, loading = false.
C18_SessionScenario ==
    [][/\ \A s \in Sessions :
             (Mounted /\ (getSession_then(s) \/ getSession_then_unguarded(s)))
             => (session' = s /\ fetches' = Append(fetches, Fetch(s.user.id, "getSession")))
       /\ \A i \in 1..Len(fetches) :
             (Mounted /\ session = Session(fetches[i].userId)
                /\ user_profiles[fetches[i].userId] # Null /\ LoadStep(i, FALSE))
             => /\ session' = session
                /\ user' = user_profiles[fetches[i].userId]
                /\ user'.id = session.user.id
                /\ loading' = FALSE]_vars

\* the session of the initial request is published with its profile
C18_Witness ==
    /\ Mounted /\ getSession = "resolved" /\ fetches = <<>>
    /\ session # Null /\ user # Null /\ user.id = session.user.id /\ ~loading

\* C19: with the provider mounted, every notification runs the same
\* branching: without a session the state becomes session = null,
\* user = null, loading = false and no fetch starts; with a session that
\* session is published and one fetch for its subject id starts.
C19_NotificationBranching ==
    [][\A s \in Sessions \cup {Null} :
          (Mounted /\ (onAuthStateChange(s) \/ onAuthStateChange_unguarded(s)))
          => /\ session' = s
             /\ IF s = Null
                  THEN user' = Null /\ loading' = FALSE /\ Len(fetches') = Len(fetches)
                  ELSE /\ Len(fetches') = Len(fetches) + 1
                       /\ fetches'[Len(fetches')] = Fetch(s.user.id, "onAuthStateChange")]_vars

\* a notification with a session has started the fetch for its subject while
\* a profile was already published
C19_Witness ==
    /\ Mounted /\ session # Null /\ user # Null
    /\ \E i \in 1..Len(fetches) :
          fetches[i] = Fetch(session.user.id, "onAuthStateChange")

\* C20: whenever a profile and a session are published together, the
\* profile's id is the session's subject id.
C20_ProfileBelongsToSession ==
    (user # Null /\ session # Null) => user.id = session.user.id

\* ---- role scoping -----------------------------------------------------------
\* the owning relation of a row includes user u: a parent's linked rows, a
\* doctor's assigned rows, every row for admin and staff, none without a
\* profile
Unscoped(u) == Role(u) \in {"admin", "staff"}

OwnsBaby(u, b) ==
    \/ Unscoped(u)
    \/ Role(u) = "doctor" /\ b.assigned_doctor_id = u.id
    \/ Role(u) = "parent" /\ ParentBaby(u.id, b.id) \in tables.parent_babies

OwnsLink(u, pb) ==
    \/ Unscoped(u)
    \/ Role(u) = "doctor" /\ Baby(pb.baby_id, u.id) \in tables.babies
    \/ Role(u) = "parent" /\ pb.parent_id = u.id

OwnsAppointment(u, a) ==
    \/ Unscoped(u)
    \/ Role(u) = "doctor" /\ a.doctor_id = u.id
    \/ Role(u) = "parent" /\ a.parent_id = u.id

OwnsMessage(u, m) ==
    \/ Unscoped(u)
    \/ Role(u) \in {"doctor", "parent"} /\ m.recipient_id = u.id

\* C12: in every AuthState, with or without a profile, no screen's queries
\* return a row whose owning relation excludes the current user.
C12_NoForeignRow ==
    /\ \A b \in screen.rows.babies : OwnsBaby(user, b)
    /\ \A pb \in screen.rows.parent_babies : OwnsLink(user, pb)
    /\ \A a \in screen.rows.appointments : OwnsAppointment(user, a)
    /\ \A m \in screen.rows.messages : OwnsMessage(user, m)

\* C13: for a doctor, every screen returns only babies assigned to that
\* doctor and only appointments with that doctor.
C13_DoctorScope ==
    Role(user) = "doctor" =>
        /\ \A b \in screen.rows.babies : b.assigned_doctor_id = user.id
        /\ \A a \in screen.rows.appointments : a.doctor_id = user.id

\* C14: for a parent, every screen returns only babies linked to that parent
\* through parent_babies, appointments with that parent_id and messages
\* with that recipient_id.
C14_ParentScope ==
    Role(user) = "parent" =>
        /\ \A b \in screen.rows.babies : ParentBaby(user.id, b.id) \in tables.parent_babies
        /\ \A pb \in screen.rows.parent_babies : pb.parent_id = user.id
        /\ \A a \in screen.rows.appointments : a.parent_id = user.id
        /\ \A m \in screen.rows.messages : m.recipient_id = user.id

\* C15: the dashboard counts over the row sets of the list screens: its baby
\* count is the size of the role's baby list and its appointments are the
\* appointments list cut to the dashboard's date window.
C15_DashboardMatchesLists ==
    [][loadDashboardData(FALSE) =>
          /\ screen'.stats.totalBabies = Cardinality(BabyListQuery(user))
          /\ screen'.rows.appointments = InWindow(AppointmentsQuery(user))]_vars

C21_ClientNeverInserts ==
    [][user_profiles' # user_profiles => \E u \in Users : handle_new_user(u)]_vars

\* the provider answers the sign-up request with a new account
SignUpAccepted(resp) ==
    /\ ~resp.threw /\ resp.error = Null
    /\ signUp(resp) \/ signUp_unguarded(resp)

\* what C22 asks of one step
SignUpContract ==
    /\ \A resp \in Answers :
          SignUpAccepted(resp) =>
             auth_users'[call.args.email] =
                Metadata(call.args.first_name, call.args.last_name, call.args.phone,
                         IF call.args.role = Undefined THEN "parent" ELSE call.args.role)
    /\ (call.op = "signUp" /\ call.stage \in {"delay", "insert"} /\ call'.stage = "returned")
          => call'.result = Success

\* C22: a sign-up the provider accepts stores first_name, last_name, phone
\* and role as the account's metadata, the role being parent when the caller
\* gave none, and when signUp returns after that it returns {}.
C22_SignUpMetadata == [][SignUpContract]_vars

\* ---- the (auth) screens ----------------------------------------------------
\* what resetPasswordForEmail returns for a provider answer
ResetResult(resp) ==
    IF resp.threw THEN Failure("An unexpected error occurred")
    ELSE IF resp.error # Null THEN Failure(resp.error.message)
    ELSE Success

\* C23: resetPasswordForEmail returns {} when the provider reports no error
\* and {error: message} otherwise, returns even when the provider call throws,
\* leaves AuthState unchanged, and the forgot-password screen sets emailSent
\* only when the result it received is {}.
C23_ResetPassword ==
    [][/\ \A resp \in Answers :
             resetPasswordForEmail(resp) =>
                /\ call'.stage = "returned"
                /\ call'.result = ResetResult(resp)
                /\ (call'.result = Success) <=> (~resp.threw /\ resp.error = Null)
                /\ AuthState' = AuthState
       /\ (form'.emailSent /\ ~form.emailSent) =>
             /\ call.op = "resetPasswordForEmail" /\ call.stage = "returned"
             /\ call.result = Success
       /\ handleResetPassword_then => (form'.emailSent <=> call.result = Success)]_vars

\* the forgot-password screen shows "Check Your Email" after a reset request
\* the provider accepted
C23_Witness ==
    /\ form.name = "forgot-password" /\ form.emailSent /\ ~form.loading
    /\ call.op = "resetPasswordForEmail" /\ call.result = Success

\* the checks of the register screen as the claim lists them
AllChecksPass(formData) ==
    /\ formData.email # "" /\ formData.password # <<>>
    /\ formData.firstName # "" /\ formData.lastName # ""
    /\ formData.password = formData.confirmPassword
    /\ Len(formData.password) >= MinPassword

FirstFailure(formData) ==
    CASE formData.email = "" \/ formData.password = <<>> \/ formData.firstName = ""
            \/ formData.lastName = "" -> "Please fill in all required fields"
      [] formData.password # formData.confirmPassword -> "Passwords do not match"
      [] OTHER -> "Password must be at least 6 characters"

\* C30: the register screen calls signUp only when every check passes, reports
\* the first failing check otherwise; after signUp returns its loading flag
\* is false, it goes to the login screen on success and on a
\* duplicate-account error, and stays on the form for any other error.
C30_RegisterScreen ==
    [][/\ \A formData \in FormData :
             handleRegister(formData) =>
                IF AllChecksPass(formData)
                  THEN call'.op = "signUp" /\ call'.stage = "awaiting" /\ form'.loading
                       /\ form'.alert = form.alert
                  ELSE call' = call /\ ~form'.loading /\ form'.alert = FirstFailure(formData)
       /\ handleRegister_then =>
             /\ ~form'.loading
             /\ (form'.route = "/(auth)/login") <=>
                   call.result \in {Success, Failure("User already registered")}
             /\ (form'.route = "none") => form'.alert = call.result.error]_vars

\* signUp answered a duplicate account and the screen went to the login screen
C30_Witness ==
    /\ form.name = "register" /\ ~form.loading /\ form.route = "/(auth)/login"
    /\ call.op = "signUp" /\ call.result = Failure("User already registered")

\* ---- root navigation --------------------------------------------------------
\* C24: with loading false and a session, the root navigation shows the
\* (tabs) area whether or not a profile is loaded; it shows the (auth) area
\* only without a session; while loading it shows only the loading screen.
C24_DegradedIsAuthenticated ==
    /\ (~loading /\ session # Null) => (RootLayoutNav = "(tabs)" /\ Index = "/(tabs)")
    /\ RootLayoutNav = "(auth)" => session = Null
    /\ Index = "/(auth)/login" => session = Null
    /\ loading => (RootLayoutNav = "LoadingScreen" /\ Index = "LoadingScreen")

\* the degraded state: a session, no profile, loading over, tabs shown
C24_Witness ==
    /\ ~loading /\ session # Null /\ user = Null /\ fetches = <<>>
    /\ RootLayoutNav = "(tabs)"

\* ---- the loading flag -------------------------------------------------------
\* C28: loading starts true and no step sets it back to true: once false it
\* is false after every later notification, profile fetch and operation.
C28_LoadingMonotone == [][~loading => ~loading']_vars

\* loading is already false while a later notification's profile fetch is in
\* flight
C28_Witness == ~loading /\ fetches # <<>> /\ session # Null

\* ---- the initial session request and the notifications ----------------------
\* a notification has been delivered while the initial request is pending:
\* until it resolves only a notification sets a session or, directly or
\* through the fetch it starts, clears loading
NotifiedWhilePending == getSession = "pending" /\ (session # Null \/ ~loading)

\* C26: the resolution of the initial session request, when it comes after a
\* notification was delivered, does not replace the session that the
\* notification set.
C26_LateInitialSession ==
    [][\A s \in Sessions \cup {Null} :
          (NotifiedWhilePending /\ (getSession_then(s) \/ getSession_then_unguarded(s)))
             => session' = session]_vars

\* ---- the profile that is not there yet --------------------------------------
\* the profile query of fetch i finds no row for the signed-up account of the
\* current session: the trigger has not inserted it yet
ProfileNotFound(i) ==
    /\ i \in 1..Len(fetches)
    /\ user_profiles[fetches[i].userId] = Null
    /\ Mounted /\ session # Null
    /\ session.user.id = fetches[i].userId

\* C25: when the profile read after a sign-up finds no row, the Session
\* Manager fetches again: the step that handles the not-found answer leaves a
\* fetch for that account in flight.
C25_RetryWhenProfileMissing ==
    [][\A i \in 1..Len(fetches) :
          (ProfileNotFound(i)
             /\ (loadUserProfile(i, FALSE) \/ loadUserProfile_unguarded(i, FALSE)))
          => \E j \in 1..Len(fetches') : fetches'[j].userId = fetches[i].userId]_vars

\* ---- the message inbox ------------------------------------------------------
\* the inbox on screen lists only the current user's messages
InboxOwn ==
    (TabsShown /\ inbox.mounted) =>
        \A m \in inbox.messages : m.recipient_id = UserId(user)

\* a change of one of the current user's message rows starts a reload
InboxReloads ==
    \A m \in InboxMessages :
       (postgres_changes(m) /\ TabsShown /\ inbox.mounted /\ user # Null
           /\ m.recipient_id = UserId(user))
       => Len(inbox'.loads) = Len(inbox.loads) + 1

\* once the screen is unmounted nothing but a new mount starts a load
InboxReleased ==
    (~inbox.mounted /\ ~inbox'.mounted) => Len(inbox'.loads) <= Len(inbox.loads)

\* C27: the inbox holds only messages whose recipient_id is the current
\* user's id, every change event for that recipient starts a reload, and
\* after the screen unmounts no reload is started.
C27_InboxLive == [][InboxOwn' /\ InboxReloads /\ InboxReleased]_vars

\* C29: when the remote update of is_read returns an error or throws, the
\* local list is left as it was: no message becomes read locally.
C29_MarkAsReadConsistent ==
    [][\A id \in {"m1", "m2"}, outcome \in {"error", "threw"} :
          markAsRead(id, outcome) => inbox'.messages = inbox.messages]_vars
====
